---- MODULE Spec2Model ----
(***************************************************************************)
(* Model of smart_petadoption.py: a single-process HTTP server over a      *)
(* SQLite file with three tables (users, animals, adoption_applications).  *)
(*                                                                         *)
(* A table is the sequence of its rows in rowid order.  A request body is  *)
(* the value json.loads returns; JSON values are tagged records so that    *)
(* Python's == between values of different types is simply FALSE.          *)
(* weight_kg (a REAL column) is kept in tenths of a kilogram.  The         *)
(* created_at columns of users and animals are never read by any handler   *)
(* and are left out; applied_at is kept, in whole seconds, the resolution  *)
(* of CURRENT_TIMESTAMP.                                                   *)
(***************************************************************************)
EXTENDS Integers, Sequences, FiniteSets, TLC

\* ------------------------------------------------------------------ bounds
MaxUsers   == 3     \* rows in users (two are seeded)
MaxAnimals == 13    \* rows in animals (twelve are seeded)
MaxApps    == 2     \* rows in adoption_applications
MaxClock   == 1     \* seconds the clock may advance
MaxUserSeq == 5     \* rowids drawn for users (a restart draws two)

\* ------------------------------------------------------------ JSON values
Str(x)  == [tag |-> "str",  s |-> x,  n |-> 0]
Num(k)  == [tag |-> "int",  s |-> "", n |-> k]
None    == [tag |-> "null", s |-> "", n |-> 0]
JTrue   == [tag |-> "bool", s |-> "", n |-> 1]
\* marks a key that the request body does not carry
Missing == [tag |-> "missing", s |-> "", n |-> 0]

\* json.loads of the request body: an object, any other JSON value, or text
\* that is not JSON at all
Dict(f)   == [kind |-> "dict",
              fields |-> [k \in {j \in DOMAIN f : f[j] # Missing} |-> f[k]]]
NonObject == [kind |-> "nonobject", fields |-> <<>>]
NotJson   == [kind |-> "invalid",   fields |-> <<>>]

\* dict.get(key): None when the key is absent
Get(data, k) == IF k \in DOMAIN data.fields THEN data.fields[k] ELSE None
\* "key in dict", the condition under which data[key] does not raise KeyError
Has(data, k) == k \in DOMAIN data.fields

\* hashlib.sha256(p.encode()).hexdigest(): a collision-free digest, kept as
\* the tagged preimage
Sha256(p) == <<"sha256", p>>

\* int(text) and float(text) on the decimal literals the model uses; any
\* other text raises ValueError.  float's result is in tenths.
IntText   == [t \in {"0", "1", "2", "3", "6"} |->
                 CASE t = "0" -> 0 [] t = "1" -> 1 [] t = "2" -> 2
                   [] t = "3" -> 3 [] t = "6" -> 6]
FloatText == [t \in {"2.5", "9.0", "3"} |->
                 CASE t = "2.5" -> 25 [] t = "9.0" -> 90 [] t = "3" -> 30]

\* NextId that hands out the largest id again
NextId_Same(rows) == IF rows = <<>> THEN 1 ELSE rows[Len(rows)].id

\* ------------------------------------------------------------------ store
\* AUTOINCREMENT: one more than the largest rowid the table ever held; no
\* row is ever deleted and a failed INSERT consumes no id.  For animals and
\* adoption_applications the largest rowid ever held is the last row's.
NextId(rows) == IF rows = <<>> THEN 1 ELSE rows[Len(rows)].id + 1

\* UNIQUE(username), UNIQUE(email)
UserConflict(us, username, email) ==
    \E i \in 1..Len(us) : us[i].username = username \/ us[i].email = email

UserRow(id, username, email, hash, type) ==
    [id |-> id, username |-> username, email |-> email,
     password_hash |-> hash, user_type |-> type]

\* InsertOrIgnoreUser as INSERT OR REPLACE: the conflicting rows are deleted
\* and the new row is stored
InsertOrIgnoreUser_Replace(t, username, email, hash, type) ==
    [rows |-> Append(SelectSeq(t.rows, LAMBDA u : u.username # username
                                                  /\ u.email # email),
                     UserRow(t.seq + 1, username, email, hash, type)),
     seq  |-> t.seq + 1]

\* INSERT OR IGNORE INTO users, on t = [rows, seq]: the table's rows and its
\* entry in sqlite_sequence.  The rowid is drawn from the sequence before
\* the UNIQUE conflict is found; OR IGNORE then skips the row without
\* rolling the statement back, so the sequence keeps the drawn id.
InsertOrIgnoreUser(t, username, email, hash, type) ==
    [rows |-> IF UserConflict(t.rows, username, email) THEN t.rows
              ELSE Append(t.rows, UserRow(t.seq + 1, username, email, hash, type)),
     seq  |-> t.seq + 1]

AnimalRow(as, t) ==
    [id |-> NextId(as), name |-> t[1], species |-> t[2], breed |-> t[3],
     color |-> t[4], age_months |-> t[5], gender |-> t[6],
     vaccinated |-> t[7], activity_level |-> t[8], weight_kg |-> t[9],
     description |-> t[10], profile_photo_url |-> t[11]]

\* description and profile_photo_url are nullable columns: they hold Str(..)
\* or None
sample_pets == <<
  <<"Max", "Dog", "Golden Retriever", "Golden", 24, "Male", 1, "High", 305,
    Str("Friendly and energetic golden retriever who loves to play fetch!"),
    Str("https://images.unsplash.com/photo-1633722715463-d30f4f325e24?w=400")>>,
  <<"Charlie", "Dog", "Labrador", "Black", 36, "Male", 1, "High", 320,
    Str("Loyal and intelligent lab, great with families and children."),
    Str("https://images.unsplash.com/photo-1587300003388-59208cc962cb?w=400")>>,
  <<"Rocky", "Dog", "German Shepherd", "Brown", 48, "Male", 1, "High", 385,
    Str("Protective and loyal German Shepherd, needs experienced owner."),
    Str("https://images.unsplash.com/photo-1568572933382-74d440642117?w=400")>>,
  <<"Daisy", "Dog", "Beagle", "Tricolor", 15, "Female", 1, "Medium", 120,
    Str("Sweet beagle puppy with lots of energy and curiosity."),
    Str("https://images.unsplash.com/photo-1505628346881-b72b27e84530?w=400")>>,
  <<"Buddy", "Dog", "Poodle", "White", 20, "Male", 1, "Medium", 150,
    Str("Smart and hypoallergenic poodle, perfect for families with allergies."),
    Str("https://images.unsplash.com/photo-1616940844649-535215ae4eb1?w=400")>>,
  <<"Duke", "Dog", "Bulldog", "Brindle", 28, "Male", 1, "Low", 250,
    Str("Laid-back bulldog with a sweet temperament, great for apartments."),
    Str("https://images.unsplash.com/photo-1583511655857-d19b40a7a54e?w=400")>>,
  <<"Cooper", "Dog", "Husky", "Gray & White", 30, "Male", 1, "High", 280,
    Str("Energetic Siberian Husky with striking blue eyes, loves cold weather and running."),
    Str("https://images.unsplash.com/photo-1605568427561-40dd23c2acea?w=400")>>,
  <<"Luna", "Cat", "Siamese", "Cream", 18, "Female", 1, "Medium", 42,
    Str("Elegant Siamese cat with beautiful blue eyes and a gentle personality."),
    Str("https://images.unsplash.com/photo-1513360371669-4adf3dd7dff8?w=400")>>,
  <<"Bella", "Cat", "Persian", "White", 12, "Female", 1, "Low", 38,
    Str("Calm and affectionate Persian cat, perfect for quiet homes."),
    Str("https://images.unsplash.com/photo-1595433707802-6b2626ef1c91?w=400")>>,
  <<"Whiskers", "Cat", "Maine Coon", "Orange", 30, "Male", 1, "Medium", 65,
    Str("Large and fluffy Maine Coon with a playful personality."),
    Str("https://images.unsplash.com/photo-1574158622682-e40e69881006?w=400")>>,
  <<"Shadow", "Cat", "British Shorthair", "Gray", 24, "Male", 1, "Low", 55,
    Str("Calm and independent British Shorthair, great for apartments."),
    Str("https://images.unsplash.com/photo-1596854407944-bf87f6fdd49e?w=400")>>,
  <<"Cleo", "Cat", "Bengal", "Spotted", 14, "Female", 1, "High", 45,
    Str("Active and playful Bengal cat with beautiful spotted coat."),
    Str("https://images.unsplash.com/photo-1606214174585-fe31582dc6ee?w=400")>> >>

\* cursor.executemany(INSERT INTO animals ..., pets)
RECURSIVE InsertAnimals(_, _)
InsertAnimals(as, pets) ==
    IF pets = <<>> THEN as
    ELSE InsertAnimals(Append(as, AnimalRow(as, Head(pets))), Tail(pets))

EmptyStore == [users |-> <<>>, users_seq |-> 0, animals |-> <<>>,
               adoption_applications |-> <<>>]

\* init_database that seeds the admin only
init_database_AdminOnly(db) ==
    LET u1 == InsertOrIgnoreUser([rows |-> db.users, seq |-> db.users_seq],
                                 "admin", "admin@shelter.com",
                                 Sha256("admin123"), "admin")
    IN  [users |-> u1.rows, users_seq |-> u1.seq,
         animals |-> IF Len(db.animals) = 0
                     THEN InsertAnimals(db.animals, sample_pets)
                     ELSE db.animals,
         adoption_applications |-> db.adoption_applications]

\* init_database(): CREATE TABLE IF NOT EXISTS x3, the two seed users, and
\* the sample pets when the animals table is empty
init_database(db) ==
    LET u1 == InsertOrIgnoreUser([rows |-> db.users, seq |-> db.users_seq],
                                 "admin", "admin@shelter.com",
                                 Sha256("admin123"), "admin")
        u2 == InsertOrIgnoreUser(u1, "user", "user@example.com",
                                 Sha256("user123"), "adopter")
    IN  [users |-> u2.rows, users_seq |-> u2.seq,
         animals |-> IF Len(db.animals) = 0
                     THEN InsertAnimals(db.animals, sample_pets)
                     ELSE db.animals,
         adoption_applications |-> db.adoption_applications]

\* ------------------------------------------------- handler return values
\* What a handler hands back to do_POST / do_GET: the dict it returns (keys
\* names the keys the dict carries) or the exception it lets escape.
NoUser == [id |-> 0, username |-> "", email |-> "", user_type |-> ""]

ResultDefaults ==
    [success |-> FALSE, message |-> "", user |-> NoUser,
     compatibility_percentage |-> 0, reasons |-> <<>>,
     pets |-> <<>>, requests |-> <<>>]

Return(d) == ([exc |-> "", keys |-> DOMAIN d] @@ d) @@ ResultDefaults
Raise(e)  == [exc |-> e, keys |-> {}] @@ ResultDefaults

\* str(KeyError(k))
KeyErrorText ==
    [name |-> "'name'", species |-> "'species'", breed |-> "'breed'",
     color |-> "'color'", age_months |-> "'age_months'",
     gender |-> "'gender'", vaccinated |-> "'vaccinated'",
     activity_level |-> "'activity_level'", weight_kg |-> "'weight_kg'",
     description |-> "'description'",
     profile_photo_url |-> "'profile_photo_url'",
     adopter_id |-> "'adopter_id'", animal_id |-> "'animal_id'",
     adopter_name |-> "'adopter_name'", pet_name |-> "'pet_name'"]

\* ------------------------------------------------------------ handle_login
\* LoginRows without the user_type condition
LoginRows_AnyType(us, username, hash, type) ==
    SelectSeq(us, LAMBDA u : /\ username.tag = "str" /\ u.username = username.s
                             /\ u.password_hash = hash)

\* SELECT ... FROM users WHERE username = ? AND password_hash = ? AND
\* user_type = ?  (a NULL parameter equals nothing); cursor.fetchone()
LoginRows(us, username, hash, type) ==
    SelectSeq(us, LAMBDA u : /\ username.tag = "str" /\ u.username = username.s
                             /\ u.password_hash = hash
                             /\ type.tag = "str" /\ u.user_type = type.s)

handle_login(data, us) ==
    IF data.kind # "dict" THEN Raise("AttributeError")
    ELSE LET username == Get(data, "username")
             password == Get(data, "password")
             type     == Get(data, "user_type")
         IN  IF password.tag # "str" THEN Raise("AttributeError")
             ELSE LET rows == LoginRows(us, username, Sha256(password.s), type)
                  IN  IF rows # <<>>
                      THEN Return([success |-> TRUE,
                                   user |-> [id |-> rows[1].id,
                                             username |-> rows[1].username,
                                             email |-> rows[1].email,
                                             user_type |-> rows[1].user_type]])
                      ELSE Return([success |-> FALSE,
                                   message |-> "Invalid credentials"])

\* --------------------------------------------------------- handle_register
\* RegisterUserType that takes the kind from the request when it names one
RegisterUserType_FromRequest(data) ==
    IF Get(data, "user_type").tag = "str" THEN Get(data, "user_type").s
    ELSE "adopter"

\* the user_type the INSERT writes: the literal 'adopter' of the statement
RegisterUserType(data) == "adopter"

\* handle_register that hashes the username in place of the password
handle_register_HashesUsername(data, us, lk, seq) ==
    IF data.kind # "dict"
    THEN [res |-> Raise("AttributeError"), users |-> us, locked |-> lk,
          users_seq |-> seq]
    ELSE LET username == Get(data, "username")
             email    == Get(data, "email")
             password == Get(data, "password")
         IN  IF password.tag # "str"
             THEN [res |-> Raise("AttributeError"), users |-> us, locked |-> lk,
                   users_seq |-> seq]
             ELSE IF lk
             THEN [res |-> Raise("OperationalError"), users |-> us, locked |-> lk,
                   users_seq |-> seq]
             ELSE IF \/ username.tag # "str" \/ email.tag # "str"
                     \/ UserConflict(us, username.s, email.s)
             THEN [res |-> Return([success |-> FALSE,
                          message |-> "Username or email already exists"]),
                   users |-> us, locked |-> TRUE, users_seq |-> seq]
             ELSE [res |-> Return([success |-> TRUE]),
                   users |-> Append(us, UserRow(seq + 1, username.s, email.s,
                                                Sha256(username.s),
                                                RegisterUserType(data))),
                   locked |-> lk, users_seq |-> seq + 1]

\* Returns the handler's result, the users table with its sqlite_sequence
\* entry (a rejected INSERT is rolled back and keeps the sequence as it was)
\* and whether a connection
\* that was never closed is left holding the write transaction.  Only
\* sqlite3.IntegrityError is caught; the except path returns without
\* conn.close(), so the open transaction of the failed INSERT keeps the
\* database write-locked until that connection object is collected.
handle_register(data, us, lk, seq) ==
    IF data.kind # "dict"
    THEN [res |-> Raise("AttributeError"), users |-> us, locked |-> lk,
          users_seq |-> seq]
    ELSE LET username == Get(data, "username")
             email    == Get(data, "email")
             password == Get(data, "password")
         IN  IF password.tag # "str"
             THEN [res |-> Raise("AttributeError"), users |-> us, locked |-> lk,
                   users_seq |-> seq]
             ELSE IF lk
             THEN [res |-> Raise("OperationalError"), users |-> us, locked |-> lk,
                   users_seq |-> seq]
             ELSE IF \/ username.tag # "str" \/ email.tag # "str"
                     \/ UserConflict(us, username.s, email.s)
             THEN [res |-> Return([success |-> FALSE,
                          message |-> "Username or email already exists"]),
                   users |-> us, locked |-> TRUE, users_seq |-> seq]
             ELSE [res |-> Return([success |-> TRUE]),
                   users |-> Append(us, UserRow(seq + 1, username.s, email.s,
                                                Sha256(password.s),
                                                RegisterUserType(data))),
                   locked |-> lk, users_seq |-> seq + 1]

\* --------------------------------------------------------- handle_get_pets
PetJson(a) ==
    [id |-> a.id, name |-> a.name, species |-> a.species, breed |-> a.breed,
     color |-> a.color, age_months |-> a.age_months, gender |-> a.gender,
     vaccinated |-> (a.vaccinated # 0), activity_level |-> a.activity_level,
     weight_kg |-> a.weight_kg, description |-> a.description,
     profile_photo_url |-> a.profile_photo_url]

\* handle_get_pets with the rows in descending id order
handle_get_pets_NewestFirst(as) ==
    Return([success |-> TRUE,
            pets |-> [i \in 1..Len(as) |-> PetJson(as[Len(as) + 1 - i])]])

handle_get_pets(as) ==
    Return([success |-> TRUE, pets |-> [i \in 1..Len(as) |-> PetJson(as[i])]])

\* ---------------------------------------------------------- handle_add_pet
\* int(v): a str is parsed, an int or bool is itself, None raises TypeError
PyInt(v) ==
    CASE v.tag = "str" /\ v.s \in DOMAIN IntText -> [exc |-> "", val |-> IntText[v.s]]
      [] v.tag = "str"  -> [exc |-> "ValueError", val |-> 0]
      [] v.tag \in {"int", "bool"} -> [exc |-> "", val |-> v.n]
      [] OTHER -> [exc |-> "TypeError", val |-> 0]

\* float(v), in tenths
PyFloat(v) ==
    CASE v.tag = "str" /\ v.s \in DOMAIN FloatText -> [exc |-> "", val |-> FloatText[v.s]]
      [] v.tag = "str"  -> [exc |-> "ValueError", val |-> 0]
      [] v.tag \in {"int", "bool"} -> [exc |-> "", val |-> 10 * v.n]
      [] OTHER -> [exc |-> "TypeError", val |-> 0]

\* the parameter tuple of the INSERT, in the order Python evaluates it
AddPetFields ==
    <<"name", "species", "breed", "color", "age_months", "gender",
      "vaccinated", "activity_level", "weight_kg", "description",
      "profile_photo_url">>

\* the exception raised while evaluating parameter k, "" when there is none
AddPetParamError(data, k) ==
    IF data.kind # "dict" THEN "TypeError"
    ELSE IF ~Has(data, k) THEN "KeyError"
    ELSE IF k \in {"age_months", "vaccinated"} THEN PyInt(data.fields[k]).exc
    ELSE IF k = "weight_kg" THEN PyFloat(data.fields[k]).exc
    ELSE ""

\* index of the first parameter whose evaluation raises, 0 when none does
FirstAddPetError(data) ==
    LET bad == {i \in 1..Len(AddPetFields) :
                   AddPetParamError(data, AddPetFields[i]) # ""}
    IN  IF bad = {} THEN 0 ELSE CHOOSE i \in bad : \A j \in bad : i <= j

\* str(e) of the exception raised while evaluating the parameters
AddPetParamMessage(data, i) ==
    LET k == AddPetFields[i]
        e == AddPetParamError(data, k)
    IN  CASE data.kind # "dict" -> "list indices must be integers or slices, not str"
          [] e = "KeyError"    -> KeyErrorText[k]
          [] e = "ValueError" /\ k = "weight_kg" -> "could not convert string to float"
          [] e = "ValueError"  -> "invalid literal for int() with base 10"
          [] OTHER             -> "argument must be a string or a real number"

\* AnimalConstraintError without the CHECK clauses
AnimalConstraintError_NoCheck(d, vaccinated) ==
    CASE d["name"].tag # "str"           -> "NOT NULL constraint failed: animals.name"
      [] d["species"].tag # "str"        -> "NOT NULL constraint failed: animals.species"
      [] d["breed"].tag # "str"          -> "NOT NULL constraint failed: animals.breed"
      [] d["color"].tag # "str"          -> "NOT NULL constraint failed: animals.color"
      [] d["gender"].tag # "str"         -> "NOT NULL constraint failed: animals.gender"
      [] d["activity_level"].tag # "str" -> "NOT NULL constraint failed: animals.activity_level"
      [] OTHER -> ""

\* the animals table's NOT NULL and CHECK constraints on the bound values;
\* "" when the row is accepted
AnimalConstraintError(d, vaccinated) ==
    CASE d["name"].tag # "str"           -> "NOT NULL constraint failed: animals.name"
      [] d["species"].tag # "str"        -> "NOT NULL constraint failed: animals.species"
      [] d["breed"].tag # "str"          -> "NOT NULL constraint failed: animals.breed"
      [] d["color"].tag # "str"          -> "NOT NULL constraint failed: animals.color"
      [] d["gender"].tag # "str"         -> "NOT NULL constraint failed: animals.gender"
      [] d["activity_level"].tag # "str" -> "NOT NULL constraint failed: animals.activity_level"
      [] d["gender"].s \notin {"Male", "Female"}
                          -> "CHECK constraint failed: gender IN ('Male', 'Female')"
      [] vaccinated \notin {0, 1}
                          -> "CHECK constraint failed: vaccinated IN (0, 1)"
      [] d["activity_level"].s \notin {"Low", "Medium", "High"}
                          -> "CHECK constraint failed: activity_level IN ('Low', 'Medium', 'High')"
      [] OTHER -> ""

\* Every exception is caught.  One raised by cursor.execute (the database
\* is locked, a constraint fails) leaves the connection unclosed; when the
\* INSERT itself failed, its transaction stays open and holds the write lock.
handle_add_pet(data, as, lk) ==
    LET i == FirstAddPetError(data) IN
    IF i # 0
    THEN [res |-> Return([success |-> FALSE, message |-> AddPetParamMessage(data, i)]),
          animals |-> as, locked |-> lk]
    ELSE IF lk
    THEN [res |-> Return([success |-> FALSE, message |-> "database is locked"]),
          animals |-> as, locked |-> lk]
    ELSE LET d    == data.fields
             age  == PyInt(d["age_months"]).val
             vacc == PyInt(d["vaccinated"]).val
             wt   == PyFloat(d["weight_kg"]).val
             err  == AnimalConstraintError(d, vacc)
         IN  IF err # ""
             THEN [res |-> Return([success |-> FALSE, message |-> err]),
                   animals |-> as, locked |-> TRUE]
             ELSE [res |-> Return([success |-> TRUE]),
                   animals |-> Append(as, AnimalRow(as,
                       <<d["name"].s, d["species"].s, d["breed"].s, d["color"].s,
                         age, d["gender"].s, vacc, d["activity_level"].s, wt,
                         d["description"], d["profile_photo_url"]>>)),
                   locked |-> lk]

\* ----------------------------------------------------- handle_get_requests
RequestJson(r) ==
    [id |-> r.id, adopter_name |-> r.adopter_name, pet_name |-> r.pet_name,
     applied_at |-> r.applied_at, status |-> r.status]

\* OrderByAppliedAtDesc with ASC in place of DESC
OrderByAppliedAtAsc(apps) ==
    LET n == Len(apps) IN
    {p \in [1..n -> 1..n] :
        /\ \A i, j \in 1..n : i # j => p[i] # p[j]
        /\ \A i, j \in 1..n : i < j => apps[p[i]].applied_at <= apps[p[j]].applied_at}

\* ORDER BY applied_at DESC: every order of the rows in which applied_at
\* never increases; SQL leaves the order of rows with equal applied_at open
OrderByAppliedAtDesc(apps) ==
    LET n == Len(apps) IN
    {p \in [1..n -> 1..n] :
        /\ \A i, j \in 1..n : i # j => p[i] # p[j]
        /\ \A i, j \in 1..n : i < j => apps[p[i]].applied_at >= apps[p[j]].applied_at}

handle_get_requests(apps, p) ==
    Return([success |-> TRUE,
            requests |-> [i \in 1..Len(apps) |-> RequestJson(apps[p[i]])]])

\* -------------------------------------------------------- handle_adopt_pet
AdoptFields == <<"adopter_id", "animal_id", "adopter_name", "pet_name">>

\* ApplicationRow with another DEFAULT for status
ApplicationRow_Approved(apps, d, now) ==
    [id |-> NextId(apps), adopter_id |-> d["adopter_id"],
     animal_id |-> d["animal_id"], adopter_name |-> d["adopter_name"].s,
     pet_name |-> d["pet_name"].s, status |-> "approved", applied_at |-> now]

\* INSERT INTO adoption_applications: status takes its DEFAULT 'pending',
\* applied_at its DEFAULT CURRENT_TIMESTAMP.  The FOREIGN KEY clauses are
\* declared, but no connection issues PRAGMA foreign_keys = ON, so SQLite
\* does not enforce them.
ApplicationRow(apps, d, now) ==
    [id |-> NextId(apps), adopter_id |-> d["adopter_id"],
     animal_id |-> d["animal_id"], adopter_name |-> d["adopter_name"].s,
     pet_name |-> d["pet_name"].s, status |-> "pending", applied_at |-> now]

handle_adopt_pet(data, apps, lk, now) ==
    LET missing == {i \in 1..Len(AdoptFields) : ~Has(data, AdoptFields[i])} IN
    IF data.kind # "dict"
    THEN [res |-> Return([success |-> FALSE,
                 message |-> "list indices must be integers or slices, not str"]),
          adoption_applications |-> apps, locked |-> lk]
    ELSE IF missing # {}
    THEN [res |-> Return([success |-> FALSE,
                 message |-> KeyErrorText[AdoptFields[
                                CHOOSE i \in missing : \A j \in missing : i <= j]]]),
          adoption_applications |-> apps, locked |-> lk]
    ELSE IF lk
    THEN [res |-> Return([success |-> FALSE, message |-> "database is locked"]),
          adoption_applications |-> apps, locked |-> lk]
    ELSE IF \E i \in 1..Len(AdoptFields) : data.fields[AdoptFields[i]].tag = "null"
    THEN [res |-> Return([success |-> FALSE,
                 message |-> "NOT NULL constraint failed: adoption_applications"]),
          adoption_applications |-> apps, locked |-> TRUE]
    ELSE [res |-> Return([success |-> TRUE]),
          adoption_applications |-> Append(apps, ApplicationRow(apps, data.fields, now)),
          locked |-> lk]

\* ---------------------------------------------- handle_compatibility_check
\* PetRows that falls back to the first row when no id matches
PetRows_OrFirst(as, pet_id) ==
    LET rows == SelectSeq(as, LAMBDA a :
                    pet_id.tag \in {"int", "bool"} /\ a.id = pet_id.n)
    IN  IF rows = <<>> THEN SubSeq(as, 1, 1) ELSE rows

\* SELECT ... FROM animals WHERE id = ?: the rows whose id equals the bound
\* value.  A bool is bound as 0/1, numeric text is compared as a number
\* (column affinity), NULL equals nothing.
PetRows(as, pet_id) ==
    SelectSeq(as, LAMBDA a :
        \/ pet_id.tag \in {"int", "bool"} /\ a.id = pet_id.n
        \/ pet_id.tag = "str" /\ pet_id.s \in DOMAIN IntText
                              /\ a.id = IntText[pet_id.s])

\* YardRule with a wrong deduction
YardRule_Deduct25(activity_level, has_yard) ==
    IF activity_level = "High" /\ ~has_yard
    THEN [delta |-> -25, reasons |-> <<"High-energy pets benefit from having a yard">>]
    ELSE IF activity_level = "High" /\ has_yard
    THEN [delta |-> 0, reasons |-> <<"Great match! This pet will love your yard">>]
    ELSE [delta |-> 0, reasons |-> <<>>]

\* each rule gives the change of the score and the reasons it appends
YardRule(activity_level, has_yard) ==
    IF activity_level = "High" /\ ~has_yard
    THEN [delta |-> -20, reasons |-> <<"High-energy pets benefit from having a yard">>]
    ELSE IF activity_level = "High" /\ has_yard
    THEN [delta |-> 0, reasons |-> <<"Great match! This pet will love your yard">>]
    ELSE [delta |-> 0, reasons |-> <<>>]

\* ExperienceRule with a larger deduction for beginners
ExperienceRule_Deduct45(experience_level, activity_level) ==
    IF experience_level = Str("Beginner") /\ activity_level = "High"
    THEN [delta |-> -45, reasons |-> <<"High-energy pets may be challenging for beginners">>]
    ELSE IF experience_level = Str("Experienced")
    THEN [delta |-> 10, reasons |-> <<"Your experience is perfect for any pet">>]
    ELSE [delta |-> 0, reasons |-> <<>>]

ExperienceRule(experience_level, activity_level) ==
    IF experience_level = Str("Beginner") /\ activity_level = "High"
    THEN [delta |-> -15, reasons |-> <<"High-energy pets may be challenging for beginners">>]
    ELSE IF experience_level = Str("Experienced")
    THEN [delta |-> 10, reasons |-> <<"Your experience is perfect for any pet">>]
    ELSE [delta |-> 0, reasons |-> <<>>]

\* ChildrenRule without its elif branch
ChildrenRule_NoElif(has_children, age_months) ==
    IF has_children /\ age_months < 12
    THEN [delta |-> -10, reasons |-> <<"Young pets may need extra supervision around children">>]
    ELSE [delta |-> 0, reasons |-> <<>>]

ChildrenRule(has_children, age_months) ==
    IF has_children /\ age_months < 12
    THEN [delta |-> -10, reasons |-> <<"Young pets may need extra supervision around children">>]
    ELSE IF has_children
    THEN [delta |-> 0, reasons |-> <<"This pet's age is good for families with children">>]
    ELSE [delta |-> 0, reasons |-> <<>>]

OtherPetsRule(has_other_pets, species) ==
    IF has_other_pets
    THEN IF species = "Dog"
         THEN [delta |-> 0, reasons |-> <<"Dogs usually adapt well to other pets">>]
         ELSE [delta |-> -5, reasons |-> <<"Cats may need gradual introduction to other pets">>]
    ELSE [delta |-> 0, reasons |-> <<>>]

Min(a, b) == IF a < b THEN a ELSE b
Max(a, b) == IF a > b THEN a ELSE b

\* Clamp without the upper bound
Clamp_NoCeiling(score) == Max(0, score)

\* score = max(0, min(100, score))
Clamp(score) == Max(0, Min(100, score))

\* MatchMessage with > in place of >= at the first threshold
MatchMessage_Strict(score) ==
    IF score > 80 THEN "Excellent match! This pet would be perfect for you."
    ELSE IF score >= 60 THEN "Good match! This pet would fit well in your home."
    ELSE IF score >= 40 THEN "Fair match. Consider the factors below carefully."
    ELSE "This pet may not be the best fit, but adoption is always possible with proper preparation."

MatchMessage(score) ==
    IF score >= 80 THEN "Excellent match! This pet would be perfect for you."
    ELSE IF score >= 60 THEN "Good match! This pet would fit well in your home."
    ELSE IF score >= 40 THEN "Fair match. Consider the factors below carefully."
    ELSE "This pet may not be the best fit, but adoption is always possible with proper preparation."

\* score before score = max(0, min(100, score))
RawScore(pet, has_yard, experience_level, has_children, has_other_pets) ==
    100 + YardRule(pet.activity_level, has_yard).delta
        + ExperienceRule(experience_level, pet.activity_level).delta
        + ChildrenRule(has_children, pet.age_months).delta
        + OtherPetsRule(has_other_pets, pet.species).delta

\* IsYes as Python truthiness: any non-empty str and true count as true
IsYes_Truthy(v) == (v.tag = "str" /\ v.s # "") \/ (v.tag = "bool" /\ v.n = 1)

\* data.get(k) == 'yes'
IsYes(v) == v = Str("yes")

handle_compatibility_check(data, as) ==
    IF data.kind # "dict" THEN Raise("AttributeError")
    ELSE LET pet_id           == Get(data, "pet_id")
             has_yard         == IsYes(Get(data, "has_yard"))
             has_children     == IsYes(Get(data, "has_children"))
             has_other_pets   == IsYes(Get(data, "has_other_pets"))
             experience_level == Get(data, "experience_level")
             rows             == PetRows(as, pet_id)
         IN  IF rows = <<>>
             THEN Return([success |-> FALSE, message |-> "Pet not found"])
             ELSE LET pet == rows[1]
                      r1  == YardRule(pet.activity_level, has_yard)
                      r2  == ExperienceRule(experience_level, pet.activity_level)
                      r3  == ChildrenRule(has_children, pet.age_months)
                      r4  == OtherPetsRule(has_other_pets, pet.species)
                      score == Clamp(RawScore(pet, has_yard, experience_level,
                                              has_children, has_other_pets))
                  IN  Return([success |-> TRUE,
                              compatibility_percentage |-> score,
                              message |-> MatchMessage(score),
                              reasons |-> r1.reasons \o r2.reasons
                                          \o r3.reasons \o r4.reasons])

\* ------------------------------------------------------------------ state
VARIABLES
    users,                  \* table users
    users_seq,              \* sqlite_sequence entry of users: the largest
                            \* rowid AUTOINCREMENT has drawn for the table
    animals,                \* table animals
    adoption_applications,  \* table adoption_applications
    locked,                 \* an unclosed connection holds the write lock
    clock,                  \* CURRENT_TIMESTAMP, in seconds
    phase,                  \* "accepting": serve_forever waits for a request;
                            \* "responded": a request has just been handled
    request,                \* the request handled last
    response                \* what the client got for it

vars == <<users, users_seq, animals, adoption_applications, locked, clock,
          phase, request, response>>

NoRequest == [method |-> "", path |-> "", body |-> NotJson]

\* what the client receives: the status line and headers do_POST / do_GET
\* send and the handler's dict as the JSON body.  An exception that escapes
\* the handler method is logged by socketserver and the connection is
\* closed with nothing sent.
Send(code, ctype, res) ==
    IF res.exc # ""
    THEN [sent |-> FALSE, code |-> 0, ctype |-> ""] @@ res
    ELSE [sent |-> TRUE, code |-> code, ctype |-> ctype] @@ res

NoResponse == Send(0, "", Raise("none"))

\* ----------------------------------------------------------------- inputs
Usernames    == {"admin", "amy", "ann"}
Emails       == {"user@example.com", "amy@example.com"}
Passwords    == {"admin123", "pw"}
UserTypes    == {"admin", "adopter"}

OrMissing(S) == {Str(x) : x \in S} \cup {Missing}

LoginBodies ==
    {Dict([username |-> u, password |-> p, user_type |-> t]) :
        u \in OrMissing({"admin", "amy"}), p \in OrMissing(Passwords),
        t \in OrMissing(UserTypes)} \cup {NonObject}

RegisterBodies ==
    {Dict([username |-> u, email |-> e, password |-> p]) :
        u \in {Str(x) : x \in Usernames} \cup {None},
        e \in OrMissing(Emails), p \in OrMissing({"pw"})}
    \cup {Dict([username |-> Str(u), email |-> Str("amy@example.com"),
                password |-> Str("pw"), user_type |-> Str("admin")]) :
              u \in Usernames}
    \cup {NonObject}

\* a well-formed add-animal form: a kitten
Kit == [name |-> Str("Kit"), species |-> Str("Cat"), breed |-> Str("Tabby"),
        color |-> Str("Gray"), age_months |-> Str("6"), gender |-> Str("Female"),
        vaccinated |-> Str("0"), activity_level |-> Str("High"),
        weight_kg |-> Str("2.5"), description |-> Str("A playful kitten."),
        profile_photo_url |-> Str("https://example.com/kit.jpg")]

AddPetBodies ==
    {Dict(Kit),
     Dict([Kit EXCEPT !.gender = Str("Unknown")]),
     Dict([Kit EXCEPT !.vaccinated = Str("2")]),
     Dict([Kit EXCEPT !.age_months = Str("abc")]),
     Dict([Kit EXCEPT !.weight_kg = Str("heavy")]),
     Dict([Kit EXCEPT !.activity_level = Str("Extreme")]),
     Dict([Kit EXCEPT !.name = None]),
     Dict([Kit EXCEPT !.breed = Missing]),
     NonObject}

AdoptBodies ==
    {Dict([adopter_id |-> Num(2), animal_id |-> Num(1),
           adopter_name |-> Str("user"), pet_name |-> Str("Max")]),
     Dict([adopter_id |-> Num(99), animal_id |-> Num(99),
           adopter_name |-> Str("ghost"), pet_name |-> Str("Rex")]),
     Dict([adopter_id |-> Num(2), animal_id |-> Num(1),
           adopter_name |-> Str("user"), pet_name |-> Str("Rex")]),
     Dict([adopter_id |-> None, animal_id |-> Num(1),
           adopter_name |-> Str("user"), pet_name |-> Str("Max")]),
     Dict([adopter_id |-> Num(2), animal_id |-> Num(1),
           adopter_name |-> Str("user"), pet_name |-> Missing]),
     NonObject}

YesNo == {Str("yes"), Str("no")}

\* values of has_yard, has_children, has_other_pets with one flag that is
\* not "yes" but looks like it, the other two being "yes"; and with all three
OddFlags ==
    UNION {{<<v, Str("yes"), Str("yes")>>, <<Str("yes"), v, Str("yes")>>,
            <<Str("yes"), Str("yes"), v>>} : v \in {Str("Yes"), JTrue, Missing}}
    \cup {<<Str("Yes"), JTrue, Missing>>}

MatchBodies ==
    {Dict([pet_id |-> id, has_yard |-> y, has_children |-> c,
           has_other_pets |-> o, experience_level |-> x]) :
        id \in {Num(1), Num(9), Num(13), Num(99)},
        y \in YesNo, c \in YesNo, o \in YesNo,
        x \in {Str("Beginner"), Str("Intermediate"), Str("Experienced")}}
    \cup {Dict([pet_id |-> Num(13), has_yard |-> f[1], has_children |-> f[2],
                has_other_pets |-> f[3],
                experience_level |-> Str("Intermediate")]) : f \in OddFlags}
    \cup {Dict([pet_id |-> id, has_yard |-> Str("no"), has_children |-> Str("no"),
                has_other_pets |-> Str("no"),
                experience_level |-> Str("Intermediate")]) : id \in {None, Missing}}
    \cup {NonObject}

\* ------------------------------------------------------------------- Init
\* __main__: init_database() on a database file that does not exist yet,
\* then serve_forever()
Init ==
    LET db == init_database(EmptyStore) IN
    /\ users = db.users
    /\ users_seq = db.users_seq
    /\ animals = db.animals
    /\ adoption_applications = db.adoption_applications
    /\ locked = FALSE
    /\ clock = 0
    /\ phase = "accepting"
    /\ request = NoRequest
    /\ response = NoResponse

\* ---------------------------------------------------------------- do_POST
Handled(path, data, resp) ==
    /\ phase' = "responded"
    /\ request' = [method |-> "POST", path |-> path, body |-> data]
    /\ response' = resp

\* PostLogin that creates the account when the login fails for a username
\* nobody holds yet
PostLogin_AutoRegister ==
    /\ phase = "accepting"
    /\ \E data \in LoginBodies :
          LET res  == handle_login(data, users)
              name == Get(data, "username")
              new  == /\ res.exc = "" /\ ~res.success
                      /\ name.tag = "str" /\ Len(users) < MaxUsers
                      /\ ~UserConflict(users, name.s, "")
          IN  /\ Handled("/api/login", data, Send(200, "application/json", res))
              /\ users' = IF new
                          THEN Append(users,
                                   UserRow(users_seq + 1, name.s, "",
                                           Sha256(Get(data, "password").s), "adopter"))
                          ELSE users
              /\ users_seq' = IF new THEN users_seq + 1 ELSE users_seq
    /\ UNCHANGED <<animals, adoption_applications, locked, clock>>

PostLogin ==
    /\ phase = "accepting"
    /\ \E data \in LoginBodies :
          Handled("/api/login", data,
                  Send(200, "application/json", handle_login(data, users)))
    /\ UNCHANGED <<users, users_seq, animals, adoption_applications, locked, clock>>

PostRegister ==
    /\ phase = "accepting"
    /\ \E data \in RegisterBodies :
          LET r == handle_register(data, users, locked, users_seq) IN
          /\ Len(r.users) <= MaxUsers
          /\ users' = r.users
          /\ users_seq' = r.users_seq
          /\ locked' = r.locked
          /\ Handled("/api/register", data, Send(200, "application/json", r.res))
    /\ UNCHANGED <<animals, adoption_applications, clock>>

PostAddPet ==
    /\ phase = "accepting"
    /\ \E data \in AddPetBodies :
          LET r == handle_add_pet(data, animals, locked) IN
          /\ Len(r.animals) <= MaxAnimals
          /\ animals' = r.animals
          /\ locked' = r.locked
          /\ Handled("/api/pets", data, Send(200, "application/json", r.res))
    /\ UNCHANGED <<users, users_seq, adoption_applications, clock>>

PostRequests ==
    /\ phase = "accepting"
    /\ \E p \in OrderByAppliedAtDesc(adoption_applications) :
          Handled("/api/requests", Dict(<<>>),
                  Send(200, "application/json",
                       handle_get_requests(adoption_applications, p)))
    /\ UNCHANGED <<users, users_seq, animals, adoption_applications, locked, clock>>

PostAdopt ==
    /\ phase = "accepting"
    /\ \E data \in AdoptBodies :
          LET r == handle_adopt_pet(data, adoption_applications, locked, clock) IN
          /\ Len(r.adoption_applications) <= MaxApps
          /\ adoption_applications' = r.adoption_applications
          /\ locked' = r.locked
          /\ Handled("/api/adopt", data, Send(200, "application/json", r.res))
    /\ UNCHANGED <<users, users_seq, animals, clock>>

PostMatch ==
    /\ phase = "accepting"
    /\ \E data \in MatchBodies :
          Handled("/api/ai/match", data,
                  Send(200, "application/json",
                       handle_compatibility_check(data, animals)))
    /\ UNCHANGED <<users, users_seq, animals, adoption_applications, locked, clock>>

\* UnknownEndpoint that leaves response as initialised: {}
UnknownEndpoint_Empty == Return(<<>>)

\* the else branch of do_POST
UnknownEndpoint == Return([success |-> FALSE, message |-> "Unknown endpoint"])

PostUnknown ==
    /\ phase = "accepting"
    /\ \E path \in {"/api/unknown", "/"} :
          Handled(path, Dict(<<>>), Send(200, "application/json", UnknownEndpoint))
    /\ UNCHANGED <<users, users_seq, animals, adoption_applications, locked, clock>>

\* json.loads raises before the path is looked at
PostNotJson ==
    /\ phase = "accepting"
    /\ \E path \in {"/api/login", "/api/pets", "/api/unknown"} :
          Handled(path, NotJson, Send(200, "application/json", Raise("JSONDecodeError")))
    /\ UNCHANGED <<users, users_seq, animals, adoption_applications, locked, clock>>

\* ----------------------------------------------------------------- do_GET
DoGet ==
    /\ phase = "accepting"
    /\ \E path \in {"/", "/index.html", "/api/pets", "/api/requests"} :
          /\ phase' = "responded"
          /\ request' = [method |-> "GET", path |-> path, body |-> NotJson]
          /\ response' =
                IF path \in {"/", "/index.html"}
                THEN Send(200, "text/html", Return(<<>>))
                ELSE IF path = "/api/pets"
                THEN Send(200, "application/json", handle_get_pets(animals))
                ELSE Send(404, "", Return(<<>>))
    /\ UNCHANGED <<users, users_seq, animals, adoption_applications, locked, clock>>

\* ------------------------------------------------------------ environment
\* serve_forever: back to waiting for the next request
NextRequest ==
    /\ phase = "responded"
    /\ phase' = "accepting"
    /\ request' = NoRequest
    /\ response' = NoResponse
    /\ UNCHANGED <<users, users_seq, animals, adoption_applications, locked, clock>>

\* a second passes.  Only the order of the applied_at values is observable,
\* so the clock counts the seconds in which an application was stored: it
\* moves on once the current second has been used.
Tick ==
    /\ phase = "accepting"
    /\ clock < MaxClock
    /\ \E i \in 1..Len(adoption_applications) :
          adoption_applications[i].applied_at = clock
    /\ clock' = clock + 1
    /\ UNCHANGED <<users, users_seq, animals, adoption_applications, locked, phase,
                   request, response>>

\* the unclosed connection object is reclaimed by the interpreter, which
\* closes it and rolls its transaction back
CollectConnection ==
    /\ phase = "accepting"
    /\ locked
    /\ locked' = FALSE
    /\ UNCHANGED <<users, users_seq, animals, adoption_applications, clock, phase,
                   request, response>>

Next ==
    \/ PostLogin
    \/ PostRegister
    \/ PostAddPet
    \/ PostRequests
    \/ PostAdopt
    \/ PostMatch
    \/ PostUnknown
    \/ PostNotJson
    \/ DoGet
    \/ NextRequest
    \/ Tick
    \/ CollectConnection

Spec == Init /\ [][Next]_vars

\* the server receiving adopt requests only, in any order
NextAdopt ==
    \/ PostAdopt
    \/ NextRequest
    \/ Tick
    \/ CollectConnection

SpecAdopt == Init /\ [][NextAdopt]_vars

\* The server process is stopped while it waits for a request and started
\* again: __main__ runs init_database() on the database file as it is.  The
\* connections of the old process are gone, and with them the write lock.
Restart ==
    /\ phase = "accepting"
    /\ users_seq + 2 <= MaxUserSeq
    /\ LET db == init_database(
                    [users |-> users, users_seq |-> users_seq,
                     animals |-> animals,
                     adoption_applications |-> adoption_applications])
       IN  /\ users' = db.users
           /\ users_seq' = db.users_seq
           /\ animals' = db.animals
           /\ adoption_applications' = db.adoption_applications
    /\ locked' = FALSE
    /\ UNCHANGED <<clock, phase, request, response>>

\* register, add-animal and adopt requests in any order, with restarts
NextRestart ==
    \/ PostRegister
    \/ PostAddPet
    \/ PostAdopt
    \/ NextRequest
    \/ Tick
    \/ CollectConnection
    \/ Restart

SpecRestart == Init /\ [][NextRestart]_vars

\* ================================================================= claims
Rows(t) == {t[i] : i \in 1..Len(t)}

\* a request to path has just been handled by do_POST
Posted(path) ==
    phase = "responded" /\ request.method = "POST" /\ request.path = path

\* do_POST responded to a match request whose body is a JSON object
MatchHandled == Posted("/api/ai/match") /\ request.body.kind = "dict"

\* the stored animals a match request names
MatchTargets == {a \in Rows(animals) : Get(request.body, "pet_id") = Num(a.id)}

Yes(data, k) == Get(data, k) = Str("yes")

ClampTo0_100(x) == IF x > 100 THEN 100 ELSE IF x < 0 THEN 0 ELSE x

\* the score as the claim C1 words it
ClaimedScore(a, data) ==
    LET high == a.activity_level = "High"
        exp  == Get(data, "experience_level")
    IN  ClampTo0_100(
          100
          - (IF high /\ ~Yes(data, "has_yard") THEN 20 ELSE 0)
          + (IF exp = Str("Beginner") /\ high THEN -15
             ELSE IF exp = Str("Experienced") THEN 10 ELSE 0)
          - (IF Yes(data, "has_children") /\ a.age_months < 12 THEN 10 ELSE 0)
          - (IF Yes(data, "has_other_pets") /\ a.species # "Dog" THEN 5 ELSE 0))

\* C1: the compatibility_percentage returned by the match operation for an
\* existing pet is the clamp to [0,100] of 100, minus 20 for a High-activity
\* pet without a yard, minus 15 for a Beginner with a High-activity pet or
\* else plus 10 for an Experienced applicant, minus 10 for children with a
\* pet younger than 12 months, minus 5 for other pets with a non-Dog.
C1_ScoreFormula ==
    MatchHandled =>
        \A a \in MatchTargets :
            /\ response.sent /\ response.success
            /\ "compatibility_percentage" \in response.keys
            /\ response.compatibility_percentage = ClaimedScore(a, request.body)

\* the spec's example: Max (Dog, High, 24 months), no yard, Beginner -> 65
C1_Witness ==
    /\ MatchHandled
    /\ request.body.fields = [pet_id |-> Num(1), has_yard |-> Str("no"),
                              has_children |-> Str("no"),
                              has_other_pets |-> Str("no"),
                              experience_level |-> Str("Beginner")]
    /\ response.compatibility_percentage = 65

\* animals that agree on everything the score reads
SameTraits(a, b) ==
    /\ a.species = b.species
    /\ a.activity_level = b.activity_level
    /\ (a.age_months < 12) <=> (b.age_months < 12)

Outcome(r) == <<r.success, r.compatibility_percentage, r.message, r.reasons>>

\* C2: the percentage a match request gets never exceeds 100 nor drops
\* below 0, and the outcome (percentage, message, reasons) is fixed by the
\* applicant fields and the animal's species, activity level and age class:
\* the same applicant fields against any stored animal with the same traits
\* give the same outcome.
C2_RangeAndDeterminism ==
    MatchHandled =>
        \A a \in MatchTargets :
            /\ response.compatibility_percentage \in 0..100
            /\ \A b \in Rows(animals) :
                  SameTraits(a, b) =>
                      Outcome(handle_compatibility_check(
                          [request.body EXCEPT !.fields["pet_id"] = Num(b.id)],
                          animals)) = Outcome(response)

\* the unclamped score is 110 (Experienced, nothing deducted), 100 is
\* returned, and other stored animals share the target's traits
C2_Witness ==
    /\ MatchHandled
    /\ \E a \in MatchTargets :
          /\ a.id = 1
          /\ \E b \in Rows(animals) : b.id # a.id /\ SameTraits(a, b)
    /\ Yes(request.body, "has_yard")
    /\ Get(request.body, "experience_level") = Str("Experienced")
    /\ response.compatibility_percentage = 100

\* the reasons as the claim C3 words them, rule by rule
ClaimedReasons(a, data) ==
    LET high == a.activity_level = "High"
        exp  == Get(data, "experience_level")
        yard == IF ~high THEN <<>>
                ELSE IF Yes(data, "has_yard")
                THEN <<"Great match! This pet will love your yard">>
                ELSE <<"High-energy pets benefit from having a yard">>
        expr == IF exp = Str("Beginner") /\ high
                THEN <<"High-energy pets may be challenging for beginners">>
                ELSE IF exp = Str("Experienced")
                THEN <<"Your experience is perfect for any pet">>
                ELSE <<>>
        kids == IF ~Yes(data, "has_children") THEN <<>>
                ELSE IF a.age_months < 12
                THEN <<"Young pets may need extra supervision around children">>
                ELSE <<"This pet's age is good for families with children">>
        pets == IF ~Yes(data, "has_other_pets") THEN <<>>
                ELSE IF a.species = "Dog"
                THEN <<"Dogs usually adapt well to other pets">>
                ELSE <<"Cats may need gradual introduction to other pets">>
    IN  yard \o expr \o kids \o pets

\* C3: the reasons list holds at most one reason per rule, in the order
\* yard, experience, children, other pets, with the text of the branch
\* that fired; a rule none of whose branches fires contributes nothing.
C3_ReasonsInOrder ==
    MatchHandled =>
        \A a \in MatchTargets :
            /\ "reasons" \in response.keys
            /\ response.reasons = ClaimedReasons(a, request.body)
            /\ Len(response.reasons) <= 4

\* all four rules fire on a young Cat: four reasons in the fixed order
C3_Witness ==
    /\ MatchHandled
    /\ \E a \in MatchTargets : a.species = "Cat" /\ a.age_months < 12
    /\ response.reasons =
         <<"High-energy pets benefit from having a yard",
           "High-energy pets may be challenging for beginners",
           "Young pets may need extra supervision around children",
           "Cats may need gradual introduction to other pets">>

\* C4: the message of a match response is selected by the returned
\* (clamped) score alone: >= 80 Excellent, 60..79 Good, 40..59 Fair,
\* below 40 the "may not be the best fit" message.
C4_MessageByScore ==
    (MatchHandled /\ response.sent /\ response.success) =>
        LET score == response.compatibility_percentage IN
        /\ score >= 80 =>
             response.message = "Excellent match! This pet would be perfect for you."
        /\ (60 <= score /\ score < 80) =>
             response.message = "Good match! This pet would fit well in your home."
        /\ (40 <= score /\ score < 60) =>
             response.message = "Fair match. Consider the factors below carefully."
        /\ score < 40 =>
             response.message = "This pet may not be the best fit, but adoption is always possible with proper preparation."

\* a score exactly on the first threshold
C4_Witness ==
    /\ MatchHandled /\ response.success
    /\ response.compatibility_percentage = 80
    /\ response.message = "Excellent match! This pet would be perfect for you."

\* UNIQUE(username) and UNIQUE(email) hold of the table
UniqueUsers(us) ==
    \A i, j \in 1..Len(us) :
        i # j => us[i].username # us[j].username /\ us[i].email # us[j].email

\* a step of do_POST that handles a register request carrying a username,
\* an email and a password, all strings
RegisterStep ==
    /\ phase = "accepting" /\ phase' = "responded"
    /\ request'.method = "POST" /\ request'.path = "/api/register"
    /\ request'.body.kind = "dict"
    /\ \A k \in {"username", "email", "password"} :
          Get(request'.body, k).tag = "str"

\* C5: no two users share a username or an email, and a register request
\* whose username or email is already used by a stored user is answered
\* with success=false and a message and leaves the users table unchanged.
C5_DuplicateRegisterRejected ==
    [][RegisterStep =>
         /\ UniqueUsers(users')
         /\ UserConflict(users, Get(request'.body, "username").s,
                                Get(request'.body, "email").s) =>
               /\ users' = users
               /\ response'.sent /\ ~response'.success
               /\ "message" \in response'.keys]_vars

\* the stored users a login request's three fields name exactly
LoginMatches ==
    {u \in Rows(users) :
        /\ Get(request.body, "username") = Str(u.username)
        /\ Get(request.body, "password").tag = "str"
        /\ u.password_hash = Sha256(Get(request.body, "password").s)
        /\ Get(request.body, "user_type") = Str(u.user_type)}

\* C6: login answers success=true with a user record if and only if a
\* stored user has exactly the supplied username, the hash of the supplied
\* password and the supplied kind, and the record is that user's id,
\* username, email and kind; a request that matches no user exactly (wrong
\* password, other kind) gets no user field, and success=false when its
\* password is a string.
C6_LoginExactMatch ==
    (Posted("/api/login") /\ request.body.kind = "dict") =>
        /\ (response.sent /\ response.success) <=> LoginMatches # {}
        /\ \A u \in LoginMatches :
              /\ "user" \in response.keys
              /\ response.user = [id |-> u.id, username |-> u.username,
                                  email |-> u.email, user_type |-> u.user_type]
        /\ LoginMatches = {} =>
              /\ "user" \notin response.keys
              /\ Get(request.body, "password").tag = "str" =>
                    /\ response.sent /\ ~response.success
                    /\ "message" \in response.keys

\* the seeded admin logs in with its own username, password and kind
C6_Witness ==
    /\ Posted("/api/login")
    /\ request.body.fields = [username |-> Str("admin"),
                              password |-> Str("admin123"),
                              user_type |-> Str("admin")]
    /\ response.success /\ response.user.id = 1

\* C7: every POST request, whatever its path and body, is answered with an
\* envelope that carries success, and a message when success is false.
C7_EveryPostAnswered ==
    (phase = "responded" /\ request.method = "POST") =>
        /\ response.sent
        /\ "success" \in response.keys
        /\ ~response.success => "message" \in response.keys

\* C8: each stored application's adopter_id is the id of a stored user and
\* its animal_id the id of a stored animal.
C8_ApplicationsReferenceRows ==
    \A r \in Rows(adoption_applications) :
        /\ \E u \in Rows(users) : r.adopter_id = Num(u.id)
        /\ \E a \in Rows(animals) : r.animal_id = Num(a.id)

\* C9: every stored application has status pending.
C9_StatusPending ==
    \A r \in Rows(adoption_applications) : r.status = "pending"

\* applications exist and the list operation reports them as pending
C9_Witness ==
    /\ Posted("/api/requests")
    /\ Len(adoption_applications) = MaxApps
    /\ \A i \in 1..Len(response.requests) : response.requests[i].status = "pending"

\* the list operation returns every stored application exactly once
ListsEachOnce ==
    /\ Len(response.requests) = Len(adoption_applications)
    /\ \A r \in Rows(adoption_applications) :
          \E i \in 1..Len(response.requests) : response.requests[i] = RequestJson(r)
    /\ \A i, j \in 1..Len(response.requests) :
          i # j => response.requests[i].id # response.requests[j].id

\* C10 as claimed: the list holds every stored application exactly once and
\* an application submitted later (it has the larger id) comes first, also
\* among applications submitted within the same second.
C10_NewestFirstAlways ==
    Posted("/api/requests") =>
        /\ ListsEachOnce
        /\ \A i, j \in 1..Len(response.requests) :
              i < j => response.requests[i].id > response.requests[j].id

\* C10, amended: the list holds every stored application exactly once and
\* an application whose submission timestamp is strictly later than
\* another's comes before it.
C10_NewestFirstByTimestamp ==
    Posted("/api/requests") =>
        /\ response.sent /\ response.success
        /\ ListsEachOnce
        /\ \A i, j \in 1..Len(response.requests) :
              response.requests[i].applied_at > response.requests[j].applied_at
                  => i < j

\* two applications submitted in different seconds are listed, later first
C10_Witness ==
    /\ Posted("/api/requests")
    /\ Len(response.requests) = 2
    /\ response.requests[1].applied_at > response.requests[2].applied_at
    /\ response.requests[1].id > response.requests[2].id


\* do_POST has just handled an add-animal request
AddPetStep == phase = "accepting" /\ Posted("/api/pets")'

\* the texts among the submitted ones that are whole numbers / decimal numbers
WholeNumberText == {Str("0"), Str("1"), Str("2"), Str("3"), Str("6")}
DecimalText     == WholeNumberText \cup {Str("2.5"), Str("9.0")}

\* the add-animal forms C11 says must be refused
RefusedForm(body) ==
    /\ body.kind = "dict"
    /\ \/ \E i \in 1..Len(AddPetFields) : ~Has(body, AddPetFields[i])
       \/ \E k \in {"name", "species", "breed", "color"} : Get(body, k) = None
       \/ Get(body, "gender") \notin {Str("Male"), Str("Female")}
       \/ Get(body, "vaccinated") \notin {Str("0"), Str("1")}
       \/ Get(body, "activity_level") \notin {Str("Low"), Str("Medium"), Str("High")}
       \/ Get(body, "age_months") \notin WholeNumberText
       \/ Get(body, "weight_kg") \notin DecimalText

EnumeratedFieldsInSets(as) ==
    \A a \in Rows(as) :
        /\ a.gender \in {"Male", "Female"}
        /\ a.vaccinated \in {0, 1}
        /\ a.activity_level \in {"Low", "Medium", "High"}

\* C11: an add-animal request that lacks a required field, or whose gender,
\* vaccinated or activity level is outside {Male, Female}, {0, 1},
\* {Low, Medium, High}, or whose age, weight or vaccinated is not numeric
\* text, is answered with success=false and a message and leaves the animals
\* unchanged; every stored animal has its enumerated fields inside the sets.
C11_InvalidAnimalRefused ==
    [][/\ EnumeratedFieldsInSets(animals')
       /\ (AddPetStep /\ RefusedForm(request'.body)) =>
             /\ response'.sent /\ ~response'.success
             /\ "message" \in response'.keys
             /\ animals' = animals]_vars

\* a form with gender "Unknown" was refused by the CHECK constraint
C11_Witness ==
    /\ Posted("/api/pets")
    /\ request.body.kind = "dict"
    /\ Get(request.body, "gender") = Str("Unknown")
    /\ ~response.success
    /\ response.message = "CHECK constraint failed: gender IN ('Male', 'Female')"
    /\ EnumeratedFieldsInSets(animals)

\* do_GET has just handled a listAnimals request
ListStep ==
    /\ phase = "accepting" /\ phase' = "responded"
    /\ request'.method = "GET" /\ request'.path = "/api/pets"

\* the numbers the submitted numeric texts denote (weights in tenths)
WholeNumber == (Str("0") :> 0) @@ (Str("1") :> 1) @@ (Str("2") :> 2)
               @@ (Str("3") :> 3) @@ (Str("6") :> 6)
Tenths      == (Str("2.5") :> 25) @@ (Str("9.0") :> 90)

\* the record listAnimals shows for a submitted form that got identifier id
ListedForm(id, f) ==
    [id |-> id, name |-> f.name.s, species |-> f.species.s,
     breed |-> f.breed.s, color |-> f.color.s,
     age_months |-> WholeNumber[f.age_months], gender |-> f.gender.s,
     vaccinated |-> (f.vaccinated = Str("1")),
     activity_level |-> f.activity_level.s,
     weight_kg |-> Tenths[f.weight_kg], description |-> f.description,
     profile_photo_url |-> f.profile_photo_url]

\* how listAnimals shows a stored animal
Listed(a) == [a EXCEPT !.vaccinated = (a.vaccinated = 1)]

\* C12: when an add-animal request succeeds the store gains, after all the
\* animals it held, one animal with a fresh identifier that listAnimals
\* shows with the submitted values after coercion (vaccinated as a boolean);
\* no step removes, changes or reorders a stored animal; and listAnimals
\* returns the stored animals, all of them, in stored order.
C12_RoundTrip ==
    [][/\ Len(animals) <= Len(animals')
       /\ \A i \in 1..Len(animals) : animals'[i] = animals[i]
       /\ (AddPetStep /\ response'.success) =>
             /\ Len(animals') = Len(animals) + 1
             /\ \A i \in 1..Len(animals) :
                   animals[i].id # animals'[Len(animals')].id
             /\ Listed(animals'[Len(animals')]) =
                   ListedForm(animals'[Len(animals')].id, request'.body.fields)
       /\ ListStep =>
             /\ response'.sent /\ response'.success
             /\ response'.pets = [i \in 1..Len(animals) |-> Listed(animals[i])]]_vars

\* Kit was added and a later listAnimals shows it as the 13th record, after
\* the twelve that were listed before
C12_Witness ==
    /\ phase = "responded" /\ request.method = "GET" /\ request.path = "/api/pets"
    /\ Len(response.pets) = 13
    /\ response.pets[1].name = "Max"
    /\ response.pets[13] = ListedForm(13, Kit)
    /\ response.pets[13].vaccinated = FALSE

\* C13: a match request whose pet_id is the identifier of no stored animal
\* is answered with success=false and the message "Pet not found", and the
\* response carries no percentage, no tier message and no reasons, whatever
\* the applicant fields are.
C13_UnknownPetNotFound ==
    (MatchHandled /\ MatchTargets = {}) =>
        /\ response.sent /\ ~response.success
        /\ response.message = "Pet not found"
        /\ response.keys = {"success", "message"}

\* pet 99 does not exist; the applicant has a yard and is experienced
C13_Witness ==
    /\ MatchHandled
    /\ Get(request.body, "pet_id") = Num(99)
    /\ Get(request.body, "has_yard") = Str("yes")
    /\ Get(request.body, "experience_level") = Str("Experienced")
    /\ response.message = "Pet not found"

\* the request with every flag that is not exactly "yes" replaced by "no"
FlagsNormalised(body) ==
    [body EXCEPT !.fields =
        [k \in {"pet_id", "experience_level"} \cap DOMAIN body.fields
             |-> body.fields[k]]
        @@ [k \in {"has_yard", "has_children", "has_other_pets"}
             |-> IF Get(body, k) = Str("yes") THEN Str("yes") ELSE Str("no")]]

HasOddFlag(body) ==
    \E k \in {"has_yard", "has_children", "has_other_pets"} :
        Get(body, k) \notin YesNo

\* C14: a match request is scored with has_yard, has_children and
\* has_other_pets true exactly where the field is the string "yes": a
\* request carrying "Yes", a JSON true or no field at all gets the percentage
\* and reasons of the same request with "no" in that place.
C14_OnlyExactYesIsTrue ==
    (MatchHandled /\ HasOddFlag(request.body)) =>
        \A a \in MatchTargets :
            /\ response.sent /\ response.success
            /\ response.compatibility_percentage =
                   ClaimedScore(a, FlagsNormalised(request.body))
            /\ response.reasons = ClaimedReasons(a, FlagsNormalised(request.body))

\* Kit (Cat, High, 6 months): has_yard "Yes", has_children true and no
\* has_other_pets field score as no yard, no children, no other pets: 80
C14_Witness ==
    /\ MatchHandled
    /\ MatchTargets # {}
    /\ Get(request.body, "has_yard") = Str("Yes")
    /\ Get(request.body, "has_children") = JTrue
    /\ ~Has(request.body, "has_other_pets")
    /\ response.compatibility_percentage = 80

SeededAdmin ==
    [id |-> 1, username |-> "admin", email |-> "admin@shelter.com",
     password_hash |-> Sha256("admin123"), user_type |-> "admin"]

\* C15: register creates users of kind adopter only, also when the request
\* carries a user_type field: the admin users are exactly the seeded admin,
\* every other stored user is an adopter, and a login that succeeds with
\* kind admin is the seeded admin's.
C15_OnlySeededAdmin ==
    /\ {u \in Rows(users) : u.user_type = "admin"} = {SeededAdmin}
    /\ \A u \in Rows(users) : u = SeededAdmin \/ u.user_type = "adopter"
    /\ (Posted("/api/register") /\ response.sent /\ response.success) =>
          users[Len(users)].user_type = "adopter"
    /\ (Posted("/api/login") /\ response.sent /\ response.success
          /\ response.user.user_type = "admin") =>
          /\ response.user.id = 1
          /\ response.user.username = "admin"

\* a register request carrying user_type "admin" succeeded and stored an
\* adopter
C15_Witness ==
    /\ Posted("/api/register")
    /\ request.body.kind = "dict"
    /\ Get(request.body, "user_type") = Str("admin")
    /\ response.sent /\ response.success
    /\ users[Len(users)].username = Get(request.body, "username").s
    /\ users[Len(users)].user_type = "adopter"

\* the seed table: name, species and breed of the twelve sample pets
SeedTable ==
    << <<"Max", "Dog", "Golden Retriever">>, <<"Charlie", "Dog", "Labrador">>,
       <<"Rocky", "Dog", "German Shepherd">>, <<"Daisy", "Dog", "Beagle">>,
       <<"Buddy", "Dog", "Poodle">>, <<"Duke", "Dog", "Bulldog">>,
       <<"Cooper", "Dog", "Husky">>, <<"Luna", "Cat", "Siamese">>,
       <<"Bella", "Cat", "Persian">>, <<"Whiskers", "Cat", "Maine Coon">>,
       <<"Shadow", "Cat", "British Shorthair">>, <<"Cleo", "Cat", "Bengal">> >>

MatchesSeedTable(pets) ==
    /\ Len(pets) = 12
    /\ \A i \in 1..12 : /\ pets[i].id = i
                        /\ pets[i].name = SeedTable[i][1]
                        /\ pets[i].species = SeedTable[i][2]
                        /\ pets[i].breed = SeedTable[i][3]
    /\ Cardinality({i \in 1..Len(pets) : pets[i].species = "Dog"}) = 7
    /\ Cardinality({i \in 1..Len(pets) : pets[i].species = "Cat"}) = 5

\* C16: right after the first initialization of an empty store the store
\* holds exactly two users, one admin and one adopter, no applications and
\* the twelve seed animals, and as long as no animal has been added
\* listAnimals returns exactly those 12 records, 7 Dog and 5 Cat, matching
\* the seed table.
C16_SeedAfterInit ==
    /\ Len(users) = 2
    /\ {users[1].user_type, users[2].user_type} = {"admin", "adopter"}
    /\ adoption_applications = <<>>
    /\ MatchesSeedTable(animals)
    /\ [][(ListStep /\ Len(animals) = 12) =>
             /\ response'.sent /\ response'.success
             /\ MatchesSeedTable(response'.pets)]_vars

\* listAnimals answered on the store as initialization left it
C16_Witness ==
    /\ phase = "responded" /\ request.method = "GET" /\ request.path = "/api/pets"
    /\ Len(response.pets) = 12
    /\ response.pets[12].name = "Cleo"
    /\ Len(users) = 2
    /\ adoption_applications = <<>>
    /\ ~locked

\* do_POST has just handled an adopt request
AdoptStep == phase = "accepting" /\ Posted("/api/adopt")'

\* an adopt request lacking one of the four fields, or carrying null for it
Incomplete(body) ==
    \E i \in 1..Len(AdoptFields) :
        ~Has(body, AdoptFields[i]) \/ Get(body, AdoptFields[i]) = None

\* the application row carries the four values the request supplied
CarriesSupplied(row, body) ==
    /\ row.adopter_id = Get(body, "adopter_id")
    /\ row.animal_id = Get(body, "animal_id")
    /\ Str(row.adopter_name) = Get(body, "adopter_name")
    /\ Str(row.pet_name) = Get(body, "pet_name")

\* C17: an adopt request in which adopter_id, animal_id, adopter_name or
\* pet_name is missing or null is answered with success=false and a message
\* and leaves the applications unchanged; every other adopt request adds
\* exactly one application, carrying the four supplied values.
C17_AdoptAddsOneOrFails ==
    [][(AdoptStep /\ request'.body.kind = "dict") =>
          IF Incomplete(request'.body)
          THEN /\ response'.sent /\ ~response'.success
               /\ "message" \in response'.keys
               /\ adoption_applications' = adoption_applications
          ELSE /\ response'.sent /\ response'.success
               /\ Len(adoption_applications') = Len(adoption_applications) + 1
               /\ SubSeq(adoption_applications', 1, Len(adoption_applications))
                     = adoption_applications
               /\ CarriesSupplied(
                     adoption_applications'[Len(adoption_applications')],
                     request'.body)]_vars

\* the paths do_POST and do_GET route
PostRoutes == {"/api/login", "/api/register", "/api/pets", "/api/requests",
               "/api/adopt", "/api/ai/match"}
GetRoutes  == {"/", "/index.html", "/api/pets"}

\* a request has just been handled
RequestStep == phase = "accepting" /\ phase' = "responded"

UnknownPathStep ==
    /\ RequestStep
    /\ \/ request'.method = "POST" /\ request'.path \notin PostRoutes
       \/ request'.method = "GET" /\ request'.path \notin GetRoutes

StoreUnchanged == UNCHANGED <<users, animals, adoption_applications>>

IsUnknownEndpointEnvelope(r) ==
    /\ r.sent /\ r.code = 200 /\ r.ctype = "application/json"
    /\ r.keys = {"success", "message"}
    /\ ~r.success /\ r.message = "Unknown endpoint"

\* C18 as stated: every response is JSON, and the response to a request to
\* an unknown path, GET as well as POST, has status 200 and is
\* {success: false, message: "Unknown endpoint"}; such a request changes no
\* stored record.
C18_UnknownEndpointAllMethods ==
    [][/\ (RequestStep /\ response'.sent) => response'.ctype = "application/json"
       /\ (UnknownPathStep /\ response'.sent) =>
             IsUnknownEndpointEnvelope(response')
       /\ UnknownPathStep => StoreUnchanged]_vars

\* C18 amended: every response sent to a POST is JSON with status 200, and
\* on an unknown path it is {success: false, message: "Unknown endpoint"};
\* a GET of an unknown path is answered with status 404 and no body, a GET
\* of / or /index.html with an HTML page, a GET of /api/pets with JSON; no
\* request to an unknown path changes a stored record.
C18_UnknownEndpointByMethod ==
    [][/\ (RequestStep /\ request'.method = "POST" /\ response'.sent) =>
             /\ response'.code = 200 /\ response'.ctype = "application/json"
             /\ request'.path \notin PostRoutes =>
                   IsUnknownEndpointEnvelope(response')
       /\ (RequestStep /\ request'.method = "GET") =>
             /\ response'.sent
             /\ request'.path \notin GetRoutes =>
                   /\ response'.code = 404 /\ response'.ctype = ""
                   /\ response'.keys = {}
             /\ request'.path \in {"/", "/index.html"} =>
                   response'.code = 200 /\ response'.ctype = "text/html"
             /\ request'.path = "/api/pets" =>
                   response'.code = 200 /\ response'.ctype = "application/json"
       /\ UnknownPathStep => StoreUnchanged]_vars

\* /api/requests is routed for POST only: a GET of it got 404 and no body
C18_Witness ==
    /\ phase = "responded"
    /\ request.method = "GET" /\ request.path = "/api/requests"
    /\ response.sent /\ response.code = 404 /\ response.keys = {}

\* C19: the pet_name of every stored application is the name of the stored
\* animal its animal_id identifies.
C19_PetNameIsAnimalName ==
    \A r \in Rows(adoption_applications) :
        \A a \in Rows(animals) :
            r.animal_id = Num(a.id) => r.pet_name = a.name

\* what an adopt request gets when it is handled with no other request's
\* connection around
HandledAlone(body) ==
    Send(200, "application/json",
         handle_adopt_pet(body, adoption_applications, FALSE, clock).res)

\* C20 (under SpecAdopt, where every request is an adopt request): adopt
\* requests issued concurrently are handled one at a time in some order
\* (the server has one thread); each adds exactly one complete
\* application row or nothing, and whether it succeeds is settled by the
\* request alone, not by the requests handled around it.
C20_AdoptIndependentAndAtomic ==
    [][AdoptStep =>
          /\ \/ adoption_applications' = adoption_applications
             \/ /\ Len(adoption_applications') = Len(adoption_applications) + 1
                /\ SubSeq(adoption_applications', 1, Len(adoption_applications))
                      = adoption_applications
                /\ request'.body.kind = "dict"
                /\ CarriesSupplied(
                      adoption_applications'[Len(adoption_applications')],
                      request'.body)
          /\ response'.success <=>
                adoption_applications' # adoption_applications
          /\ response'.success = HandledAlone(request'.body).success]_vars

\* a request of the given method to the given path has just been handled
StepOf(method, path) ==
    RequestStep /\ request'.method = method /\ request'.path = path

ReadStep ==
    \/ StepOf("POST", "/api/login")
    \/ StepOf("GET", "/api/pets")
    \/ StepOf("POST", "/api/requests")
    \/ StepOf("POST", "/api/ai/match")

\* C21: login, list animals, list applications and match leave users,
\* animals and applications unchanged, whether they succeed or fail; users
\* changes only in a register request, animals only in an add-animal request
\* and applications only in an adopt request, and each of these requests
\* leaves the other two collections unchanged.
C21_ReadsChangeNothing ==
    [][/\ ReadStep => StoreUnchanged
       /\ users' # users =>
             /\ StepOf("POST", "/api/register")
             /\ UNCHANGED <<animals, adoption_applications>>
       /\ animals' # animals =>
             /\ StepOf("POST", "/api/pets")
             /\ UNCHANGED <<users, adoption_applications>>
       /\ adoption_applications' # adoption_applications =>
             /\ StepOf("POST", "/api/adopt")
             /\ UNCHANGED <<users, animals>>]_vars

\* a login for an account nobody registered was refused and the store
\* still holds the seed users only
C21_Witness ==
    /\ Posted("/api/login")
    /\ request.body.kind = "dict"
    /\ Get(request.body, "username") = Str("amy")
    /\ response.sent /\ ~response.success
    /\ Len(users) = 2

\* the score of the handled match request on animal a, before clamping
UnclampedScore(a) ==
    RawScore(a, Yes(request.body, "has_yard"),
             Get(request.body, "experience_level"),
             Yes(request.body, "has_children"),
             Yes(request.body, "has_other_pets"))

LowestTier ==
    "This pet may not be the best fit, but adoption is always possible with proper preparation."

\* C22: for every match request on a stored animal the unclamped score lies
\* between 50 and 110, so the lower clamp bound is never active: the
\* returned percentage is the smaller of the unclamped score and 100, it is
\* at least 50, and the lowest-tier message is never returned.
C22_ScoreAtLeast50 ==
    MatchHandled =>
        \A a \in MatchTargets :
            /\ UnclampedScore(a) \in 50..110
            /\ response.success
            /\ response.compatibility_percentage = Min(UnclampedScore(a), 100)
            /\ response.compatibility_percentage >= 50
            /\ response.message # LowestTier

\* the worst case: a High-activity cat of 6 months, a Beginner without a
\* yard, with children and other pets, scores exactly 50
C22_Witness ==
    /\ MatchHandled
    /\ \E a \in MatchTargets : UnclampedScore(a) = 50
    /\ response.compatibility_percentage = 50
    /\ response.message = "Fair match. Consider the factors below carefully."

\* the stored users a login body (username, password, kind) names: those
\* with that username and kind whose password hash is the hash of it
Holders(body, kind) ==
    {u \in Rows(users) :
        /\ Get(body, "username") = Str(u.username)
        /\ Get(body, "password").tag = "str"
        /\ u.password_hash = Sha256(Get(body, "password").s)
        /\ u.user_type = kind}

\* C23: a register request that succeeds stores a user with the submitted
\* username and email, the hash of the submitted password and kind adopter;
\* no step removes or changes a stored user; and every login with a stored
\* adopter's username and password succeeds with that username and email
\* when its kind is adopter and fails when its kind is admin.  Hence once
\* register has succeeded, login as adopter succeeds and login as admin
\* fails in every later state.
C23_RegisteredCanLogin ==
    [][/\ (StepOf("POST", "/api/register") /\ response'.success) =>
             \E u \in Rows(users') :
                 /\ u \notin Rows(users)
                 /\ Str(u.username) = Get(request'.body, "username")
                 /\ Str(u.email) = Get(request'.body, "email")
                 /\ u.password_hash = Sha256(Get(request'.body, "password").s)
                 /\ u.user_type = "adopter"
       /\ \A i \in 1..Len(users) : i <= Len(users') /\ users'[i] = users[i]
       /\ (StepOf("POST", "/api/login") /\ request'.body.kind = "dict") =>
             \A u \in Holders(request'.body, "adopter") :
                 /\ Get(request'.body, "user_type") = Str("adopter") =>
                       /\ response'.sent /\ response'.success
                       /\ response'.user.username = u.username
                       /\ response'.user.email = u.email
                       /\ response'.user.user_type = "adopter"
                 /\ Get(request'.body, "user_type") = Str("admin") =>
                       response'.sent /\ ~response'.success]_vars

\* amy registered with password pw earlier; her login as adopter succeeds
\* and returns her username and email
C23_Witness ==
    /\ Posted("/api/login")
    /\ request.body.kind = "dict"
    /\ Get(request.body, "username") = Str("amy")
    /\ Get(request.body, "password") = Str("pw")
    /\ Get(request.body, "user_type") = Str("adopter")
    /\ response.sent /\ response.success
    /\ response.user.username = "amy"
    /\ response.user.email = "amy@example.com"
    /\ response.user.id = 3

\* every record of t is still in t2, at its place and with the same values
Keeps(t, t2) == t2 = t \/ (Len(t) < Len(t2) /\ SubSeq(t2, 1, Len(t)) = t)

\* identifiers grow strictly from each record to the one created next, hence
\* in creation order, and are pairwise distinct
IdsGrow(t) == \A i \in 1..(Len(t) - 1) : t[i].id < t[i + 1].id

\* C24: the store only grows: no step removes or changes a user, an animal
\* or an application; within each collection the identifiers are pairwise
\* distinct and a record created later has a strictly larger identifier
\* than every record created before it.
C24_StoreOnlyGrows ==
    [][/\ Keeps(users, users') /\ Keeps(animals, animals')
       /\ Keeps(adoption_applications, adoption_applications')
       /\ IdsGrow(users') /\ IdsGrow(animals')
       /\ IdsGrow(adoption_applications')]_vars

\* every collection has grown beyond the seed and the seed is still there
C24_Witness ==
    /\ Len(users) = 3 /\ users[3].id = 3 /\ users[1].username = "admin"
    /\ Len(animals) = 13 /\ animals[13].id = 13 /\ animals[1].name = "Max"
    /\ Len(adoption_applications) = 2
    /\ adoption_applications[1].id = 1 /\ adoption_applications[2].id = 2

\* the server has just been restarted: init_database() ran on the stored data
RestartStep == phase = "accepting" /\ phase' = "accepting" /\ users_seq' # users_seq

\* C25: running initialization again on an initialized store, after any
\* sequence of register, add-animal and adopt requests, leaves users,
\* animals and applications unchanged: the seed users are neither
\* duplicated nor overwritten and the seed animals are not inserted again.
C25_ReinitChangesNothing ==
    [][RestartStep =>
          /\ users' = users
          /\ animals' = animals
          /\ adoption_applications' = adoption_applications]_vars

\* the server was restarted after amy had registered (the ignored seed
\* INSERTs drew the rowids 4 and 5) and an animal and an application had
\* been added: the store holds what it held, the seed once
C25_Witness ==
    /\ users_seq = 5
    /\ Len(users) = 3 /\ users[3].id = 3
    /\ users[1].username = "admin" /\ users[2].username = "user"
    /\ Len(animals) = 13 /\ animals[13].name = "Kit"
    /\ Len(adoption_applications) = 1
====
